---- MODULE Spec2Model ----
(***************************************************************************)
(* virtwold: Wake-on-LAN for libvirt domains (virtwold.go).                *)
(*                                                                         *)
(* The main loop takes one captured packet at a time, GrabMACAddr          *)
(* validates it and formats the target MAC, WakeVirtualMachine connects to *)
(* libvirt, lists the inactive domains, compares every interface MAC of    *)
(* every listed domain with the target, reads the state of a matching      *)
(* domain and calls Create on it.  libvirt is an external party: each of   *)
(* its calls may fail, and the state of a domain may be changed by others  *)
(* between two calls.                                                      *)
(***************************************************************************)
EXTENDS Integers, Sequences, FiniteSets, TLC

VARIABLES
    pc,        \* position of the process: "start", "wait", the steps of WakeVirtualMachine, "exited"
    packet,    \* the packet of the current loop iteration
    grab,      \* what GrabMACAddr returned for it: [mac, err, reads]
    vmState,   \* libvirt: the run state of every defined domain
    conn,      \* the libvirt connection of the running invocation is open
    domains,   \* the list ListAllDomains returned to the running invocation
    di,        \* index into domains of the domain being examined
    ii,        \* index of the interface being examined
    state,     \* what GetState returned in the running invocation
    calls,     \* history: the libvirt wake calls issued by the latest invocation, in order,
               \* each with the domain it went to, the state GetState had returned (seen)
               \* and the state the domain was in when the call arrived (was)
    result,    \* what the latest invocation of WakeVirtualMachine returned
    faulted,   \* history: a libvirt call failed by itself in the latest invocation
    stable,    \* history: nobody else changed a domain state since the latest invocation began
    changes,   \* number of state changes made by others
    last,      \* history: the latest libvirt call of the latest invocation, [call, arg, ok]:
               \* the call, the domain it was made on, whether it succeeded
    matched,   \* history: the domains of the latest invocation in whose descriptor an
               \* interface with the wanted MAC was found
    prev       \* history: [valid, ops]; valid when the invocation before the latest one
               \* was for the same MAC, met no failed call, and no domain state has
               \* changed since it began; ops are then the wake calls it issued

vars == <<pc, packet, grab, vmState, conn, domains, di, ii, state, calls,
          result, faulted, stable, changes, last, matched, prev>>

(***************************************************************************)
(* Bounds of the model.                                                    *)
(***************************************************************************)
MaxChanges == 1     \* state changes made by other libvirt clients
MaxTrailing == 2    \* bytes following the 16 repetitions

(***************************************************************************)
(* WOL packet structure.                                                   *)
(***************************************************************************)
wolHeaderSize == 6
wolMACSize == 6
wolMACRepeats == 16
wolMinSize == wolHeaderSize + (wolMACSize * wolMACRepeats)

(***************************************************************************)
(* Strings are sequences of one-character strings.                         *)
(***************************************************************************)
HexLower == <<"0", "1", "2", "3", "4", "5", "6", "7", "8", "9", "a", "b", "c", "d", "e", "f">>

HexUpper == <<"0", "1", "2", "3", "4", "5", "6", "7", "8", "9", "A", "B", "C", "D", "E", "F">>

\* the verb %02X in place of %02x
Fmt02X(b) == <<HexUpper[(b \div 16) + 1], HexUpper[(b % 16) + 1]>>

\* fmt verb %02x: two lowercase hexadecimal digits
Fmt02x(b) == <<HexLower[(b \div 16) + 1], HexLower[(b % 16) + 1]>>

\* fmt.Sprintf("%02x:%02x:%02x:%02x:%02x:%02x", b0, ..., b5)
SprintfMAC(b0, b1, b2, b3, b4, b5) ==
    Fmt02x(b0) \o <<":">> \o Fmt02x(b1) \o <<":">> \o Fmt02x(b2) \o <<":">> \o
    Fmt02x(b3) \o <<":">> \o Fmt02x(b4) \o <<":">> \o Fmt02x(b5)

NoMAC == <<>>       \* the empty string returned beside an error

(***************************************************************************)
(* GrabMACAddr.  A packet is [app, payload]: app says whether the packet   *)
(* has an application layer, payload is its bytes (indexed from 0 in the   *)
(* code, from 1 here).  The result carries the set of payload indices the  *)
(* code reads (0-based).                                                   *)
(***************************************************************************)
At(payload, i) == payload[i + 1]

\* the header loop stopping one byte early: i < wolHeaderSize - 1
FirstBadHeader_OneShort(payload) ==
    IF \E i \in 0..(wolHeaderSize - 2) : At(payload, i) # 255
    THEN CHOOSE i \in 0..(wolHeaderSize - 2) :
            /\ At(payload, i) # 255
            /\ \A j \in 0..(i - 1) : At(payload, j) = 255
    ELSE -1

\* the header loop of lines 91-95: the first index whose byte is not 0xFF, or -1
FirstBadHeader(payload) ==
    IF \E i \in 0..(wolHeaderSize - 1) : At(payload, i) # 255
    THEN CHOOSE i \in 0..(wolHeaderSize - 1) :
            /\ At(payload, i) # 255
            /\ \A j \in 0..(i - 1) : At(payload, j) = 255
    ELSE -1

\* the length check against header and one MAC only, the repetitions forgotten
GrabMACAddr_OneMAC(p) ==
    IF ~p.app
    THEN [mac |-> NoMAC, err |-> "NoPayload", reads |-> {}]
    ELSE LET payload == p.payload
             macOffset == wolHeaderSize
         IN IF Len(payload) < wolHeaderSize + wolMACSize
            THEN [mac |-> NoMAC, err |-> "TooShort", reads |-> {}]
            ELSE LET bad == FirstBadHeader(payload)
                 IN IF bad # -1
                    THEN [mac |-> NoMAC, err |-> "InvalidHeader", reads |-> 0..bad]
                    ELSE [mac |-> SprintfMAC(At(payload, macOffset), At(payload, macOffset + 1),
                                             At(payload, macOffset + 2), At(payload, macOffset + 3),
                                             At(payload, macOffset + 4), At(payload, macOffset + 5)),
                          err |-> "nil",
                          reads |-> 0..(macOffset + 5)]

\* the header loop run before the length check, on any payload of six bytes or more
GrabMACAddr_HeaderFirst(p) ==
    IF ~p.app
    THEN [mac |-> NoMAC, err |-> "NoPayload", reads |-> {}]
    ELSE LET payload == p.payload
             macOffset == wolHeaderSize
             bad == IF Len(payload) >= wolHeaderSize THEN FirstBadHeader(payload) ELSE -1
         IN IF bad # -1
            THEN [mac |-> NoMAC, err |-> "InvalidHeader", reads |-> 0..bad]
            ELSE IF Len(payload) < wolMinSize
                 THEN [mac |-> NoMAC, err |-> "TooShort", reads |-> {}]
                 ELSE [mac |-> SprintfMAC(At(payload, macOffset), At(payload, macOffset + 1),
                                          At(payload, macOffset + 2), At(payload, macOffset + 3),
                                          At(payload, macOffset + 4), At(payload, macOffset + 5)),
                       err |-> "nil",
                       reads |-> 0..(macOffset + 5)]

\* err: "NoPayload" is "no application layer found in packet", "TooShort" is "payload
\* too short: ...", "InvalidHeader" is "invalid WOL header: ...", "nil" is no error
GrabMACAddr(p) ==
    IF ~p.app
    THEN [mac |-> NoMAC, err |-> "NoPayload", reads |-> {}]
    ELSE LET payload == p.payload
             macOffset == wolHeaderSize
         IN IF Len(payload) < wolMinSize
            THEN [mac |-> NoMAC, err |-> "TooShort", reads |-> {}]
            ELSE LET bad == FirstBadHeader(payload)
                 IN IF bad # -1
                    THEN [mac |-> NoMAC, err |-> "InvalidHeader", reads |-> 0..bad]
                    ELSE [mac |-> SprintfMAC(At(payload, macOffset), At(payload, macOffset + 1),
                                             At(payload, macOffset + 2), At(payload, macOffset + 3),
                                             At(payload, macOffset + 4), At(payload, macOffset + 5)),
                          err |-> "nil",
                          reads |-> 0..(macOffset + 5)]

(***************************************************************************)
(* libvirt, as WakeVirtualMachine sees it.                                 *)
(***************************************************************************)
Domains == {"vm1", "vm2", "vm3", "vm4"}

\* virDomainState values the switch of lines 152-165 tells apart, and two others
DomainStates == {"RUNNING", "BLOCKED", "PAUSED", "SHUTDOWN", "SHUTOFF", "CRASHED", "PMSUSPENDED"}

\* a domain is inactive when it has no running instance: only a shut off domain
IsInactive(s) == s = "SHUTOFF"

MacUpperA == <<"A", "A", ":", "B", "B", ":", "C", "C", ":", "D", "D", ":", "E", "E", ":", "F", "F">>
MacB == <<"5", "2", ":", "5", "4", ":", "0", "0", ":", "0", "0", ":", "0", "0", ":", "0", "1">>
MacC == <<"5", "2", ":", "5", "4", ":", "0", "0", ":", "0", "0", ":", "0", "0", ":", "0", "2">>
MacD == <<"5", "2", ":", "5", "4", ":", "0", "0", ":", "0", "0", ":", "0", "0", ":", "0", "3">>

\* domcfg.Devices.Interfaces[i].MAC.Address of every domain, as configured
Interfaces ==
    [d \in Domains |->
        CASE d = "vm1" -> <<MacB>>
          [] d = "vm2" -> <<MacUpperA>>
          [] d = "vm3" -> <<MacD, MacB, MacB>>
          [] d = "vm4" -> <<MacC>>]

\* the flag CONNECT_LIST_DOMAINS_ACTIVE in place of CONNECT_LIST_DOMAINS_INACTIVE
ListFlagSelects_Active(s) == ~IsInactive(s)

\* connection.ListAllDomains(libvirt.CONNECT_LIST_DOMAINS_INACTIVE)
ListFlagSelects(s) == IsInactive(s)

\* every order in which libvirt may return the selected domains
Orderings(S) ==
    {f \in [1..Cardinality(S) -> S] : \A i, j \in 1..Cardinality(S) : f[i] = f[j] => i = j}

ListAllDomains(vs) == Orderings({d \in Domains : ListFlagSelects(vs[d])})

\* the comparison made with strings.EqualFold
MACMatches_Fold(domainmac, mac) ==
    /\ Len(domainmac) = Len(mac)
    /\ \A i \in 1..Len(mac) :
          \/ domainmac[i] = mac[i]
          \/ \E k \in 11..16 : {domainmac[i], mac[i]} = {HexLower[k], HexUpper[k]}

\* the comparison of line 140: domainmac == mac
MACMatches(domainmac, mac) == domainmac = mac

\* the interface loop of lines 137-175 from interface `from` on: the index of the
\* next interface of d whose MAC matches, or 0 when the loop runs out
NextMatch(d, from, mac) ==
    LET hits == {i \in from..Len(Interfaces[d]) : MACMatches(Interfaces[d][i], mac)}
    IN IF hits = {} THEN 0 ELSE CHOOSE i \in hits : \A j \in hits : i <= j

\* the switch without its default case: every state goes on to the wake call
GoesOnToWake_Always(s) == TRUE

\* the switch of lines 152-165: the states for which the function goes on to the call
GoesOnToWake(s) == s \in {"SHUTDOWN", "SHUTOFF", "CRASHED", "PMSUSPENDED", "PAUSED"}

\* the libvirt call of line 168, whatever the state was: domain.Create()
WakeCall(s) == "start"

\* log.Fatalf in place of log.Printf
MainOnError_Fatal(err) == "exited"

\* what main does with an error of GrabMACAddr or WakeVirtualMachine (lines 67-73):
\* it logs it and goes on with the next packet
MainOnError(err) == "wait"

(***************************************************************************)
(* The packets the packet source delivers.                                 *)
(***************************************************************************)
Header == [i \in 1..wolHeaderSize |-> 255]

\* mac repeated wolMACRepeats times
Repeated(mac) == [i \in 1..(wolMACSize * wolMACRepeats) |-> mac[((i - 1) % wolMACSize) + 1]]

WellFormed(mac, trailing) == Header \o Repeated(mac) \o trailing

BytesA == <<170, 187, 204, 221, 238, 255>>
BytesB == <<82, 84, 0, 0, 0, 1>>
BytesC == <<82, 84, 0, 0, 0, 2>>
BytesE == <<82, 84, 0, 0, 0, 9>>

Replace(payload, i, b) == IF i <= Len(payload) THEN [payload EXCEPT ![i] = b] ELSE payload

Packets ==
    {[app |-> TRUE, payload |-> WellFormed(m, <<>>)] : m \in {BytesA, BytesB, BytesC, BytesE}}
    \cup {[app |-> FALSE, payload |-> <<>>],
          [app |-> TRUE, payload |-> SubSeq(WellFormed(BytesB, <<>>), 1, wolMinSize - 1)],
          [app |-> TRUE, payload |-> Replace(WellFormed(BytesB, <<>>), 3, 0)],
          [app |-> TRUE, payload |-> Replace(WellFormed(BytesB, <<>>), wolMinSize, 7)]}

NoPacket == [app |-> FALSE, payload |-> <<>>]
NoGrab == [mac |-> NoMAC, err |-> "none", reads |-> {}]

(***************************************************************************)
(* Startup (main, lines 42-58) and deviceExists.                           *)
(***************************************************************************)
Devices == {"eth0", "lo"}                 \* what pcap.FindAllDevs finds
InterfaceFlags == {"", "eth0", "eth9"}    \* values of the -interface flag

deviceExists(interfacename, findOk) ==
    IF interfacename = "" THEN FALSE
    ELSE IF ~findOk THEN FALSE
    ELSE interfacename \in Devices

\* the record of one libvirt call: which call, on which domain, and whether it succeeded
Called(call, arg, ok) == [call |-> call, arg |-> arg, ok |-> ok]

\* no libvirt call yet
NoCall == Called("none", "-", TRUE)

\* no invocation to compare the latest one with
NoPrev == [valid |-> FALSE, ops |-> <<>>]

\* the domain states at startup: every domain shut off, or the four domains in
\* the four states Running, ShutOff, Paused and PM-Suspended
InitialStates ==
    {[d \in Domains |-> "SHUTOFF"]}
    \cup {vs \in [Domains -> {"RUNNING", "SHUTOFF", "PAUSED", "PMSUSPENDED"}] :
             \A d, e \in Domains : vs[d] = vs[e] => d = e}

Init ==
    /\ pc = "start"
    /\ packet = NoPacket
    /\ grab = NoGrab
    /\ vmState \in InitialStates
    /\ conn = FALSE
    /\ domains = <<>>
    /\ di = 0
    /\ ii = 0
    /\ state = "none"
    /\ calls = <<>>
    /\ result = "none"
    /\ faulted = FALSE
    /\ stable = TRUE
    /\ changes = 0
    /\ last = NoCall
    /\ matched = {}
    /\ prev = NoPrev

\* main up to the loop: a missing device, a failed OpenLive and a failed
\* SetBPFFilter each end the process (log.Fatalf)
Startup ==
    /\ pc = "start"
    /\ \E iface \in InterfaceFlags, findOk \in BOOLEAN, openOk \in BOOLEAN, filterOk \in BOOLEAN :
          pc' = IF deviceExists(iface, findOk) /\ openOk /\ filterOk THEN "wait" ELSE "exited"
    /\ UNCHANGED <<packet, grab, vmState, conn, domains, di, ii, state, calls,
                   result, faulted, stable, changes, last, matched, prev>>

(***************************************************************************)
(* The loop of main (lines 63-74) and WakeVirtualMachine (lines 106-179),  *)
(* one action per libvirt call.                                            *)
(***************************************************************************)
IsError(res) == res \notin {"Woken", "AlreadyRunning"}

\* a return without the deferred connection.Close()
Return_NoClose(res) ==
    /\ result' = res
    /\ conn' = conn
    /\ domains' = <<>>
    /\ di' = 0
    /\ ii' = 0
    /\ state' = "none"
    /\ pc' = IF IsError(res) THEN MainOnError(res) ELSE "wait"

\* a return of WakeVirtualMachine after the connection was opened: the deferred
\* connection.Close() runs, and main logs an error and waits for the next packet
Return(res) ==
    /\ result' = res
    /\ conn' = FALSE
    /\ domains' = <<>>
    /\ di' = 0
    /\ ii' = 0
    /\ state' = "none"
    /\ pc' = IF IsError(res) THEN MainOnError(res) ELSE "wait"

\* the next packet taken while WakeVirtualMachine is still running for the previous one
ReceivePacket_Async ==
    /\ pc \notin {"start", "exited"}
    /\ \E p \in Packets :
          /\ packet' = p
          /\ grab' = GrabMACAddr(p)
          /\ pc' = IF grab'.err # "nil" THEN MainOnError(grab'.err) ELSE "connect"
    /\ calls' = <<>>
    /\ result' = "none"
    /\ state' = "none"
    /\ domains' = <<>>
    /\ di' = 0
    /\ ii' = 0
    /\ faulted' = FALSE
    /\ stable' = TRUE
    /\ last' = NoCall
    /\ matched' = {}
    /\ prev' = IF /\ result # "none" /\ result # "Woken"
                  /\ stable /\ ~faulted
                  /\ grab'.err = "nil" /\ grab'.mac = grab.mac
               THEN [valid |-> TRUE, ops |-> [k \in 1..Len(calls) |-> calls[k].op]]
               ELSE NoPrev
    /\ UNCHANGED <<vmState, conn, changes>>

\* for packet := range source.Packets(): the next packet, and GrabMACAddr on it
ReceivePacket ==
    /\ pc = "wait"
    /\ \E p \in Packets :
          /\ packet' = p
          /\ grab' = GrabMACAddr(p)
          /\ pc' = IF grab'.err # "nil" THEN MainOnError(grab'.err) ELSE "connect"
    /\ calls' = <<>>
    /\ result' = "none"
    /\ state' = "none"
    /\ domains' = <<>>
    /\ di' = 0
    /\ ii' = 0
    /\ faulted' = FALSE
    /\ stable' = TRUE
    /\ last' = NoCall
    /\ matched' = {}
    /\ prev' = IF /\ result # "none" /\ result # "Woken"
                  /\ stable /\ ~faulted
                  /\ grab'.err = "nil" /\ grab'.mac = grab.mac
               THEN [valid |-> TRUE, ops |-> [k \in 1..Len(calls) |-> calls[k].op]]
               ELSE NoPrev
    /\ UNCHANGED <<vmState, conn, changes>>

\* NewConnect called again after it failed
Connect_Retry ==
    /\ pc = "connect"
    /\ \E ok \in BOOLEAN :
          /\ last' = Called("connect", "-", ok)
          /\ IF ok
             THEN /\ conn' = TRUE
                  /\ pc' = "list"
                  /\ UNCHANGED <<result, faulted>>
             ELSE /\ pc' = "connect"
                  /\ faulted' = TRUE
                  /\ UNCHANGED <<result, conn>>
    /\ UNCHANGED <<packet, grab, vmState, domains, di, ii, state, calls, stable, changes,
                   matched, prev>>

\* libvirt.NewConnect(libvirturi), lines 108-112
Connect ==
    /\ pc = "connect"
    /\ \E ok \in BOOLEAN :
          /\ last' = Called("connect", "-", ok)
          /\ IF ok
             THEN /\ conn' = TRUE
                  /\ pc' = "list"
                  /\ UNCHANGED <<result, faulted>>
             ELSE /\ result' = "ConnectError"
                  /\ pc' = MainOnError("ConnectError")
                  /\ faulted' = TRUE
                  /\ UNCHANGED conn
    /\ UNCHANGED <<packet, grab, vmState, domains, di, ii, state, calls, stable, changes,
                   matched, prev>>

\* connection.ListAllDomains, lines 115-118
List ==
    /\ pc = "list"
    /\ \/ /\ \E l \in ListAllDomains(vmState) : domains' = l
          /\ last' = Called("list", "-", TRUE)
          /\ di' = 1
          /\ pc' = "xml"
          /\ UNCHANGED <<result, conn, faulted, ii, state>>
       \/ /\ Return("ListError")
          /\ last' = Called("list", "-", FALSE)
          /\ faulted' = TRUE
    /\ UNCHANGED <<packet, grab, vmState, calls, stable, changes, matched, prev>>

\* one round of the domain loop up to the first matching interface, lines 120-140:
\* GetXMLDesc, Unmarshal, and the comparison of the interfaces' MACs
GetXMLDesc ==
    /\ pc = "xml"
    /\ di <= Len(domains)
    /\ \E outcome \in {"ok", "xmlerr", "parseerr"} :
          LET m == NextMatch(domains[di], 1, grab.mac)
          IN /\ last' = Called("describe", domains[di], outcome = "ok")
             /\ IF outcome = "ok" /\ m # 0
                THEN /\ ii' = m
                     /\ pc' = "getstate"
                     /\ matched' = matched \cup {domains[di]}
                     /\ UNCHANGED <<di, faulted>>
                ELSE /\ di' = di + 1
                     /\ ii' = 0
                     /\ pc' = "xml"
                     /\ faulted' = (faulted \/ outcome # "ok")
                     /\ UNCHANGED matched
    /\ UNCHANGED <<packet, grab, vmState, conn, domains, state, calls, result,
                   stable, changes, prev>>

\* the domain loop has run out, line 178
ReturnNoMatch ==
    /\ pc = "xml"
    /\ di > Len(domains)
    /\ Return("NoMatchingDomain")
    /\ UNCHANGED <<packet, grab, vmState, calls, faulted, stable, changes, last, matched, prev>>

\* the error of GetState not looked at: the switch and the wake call follow anyway
GetState_ErrorIgnored ==
    /\ pc = "getstate"
    /\ \/ /\ IF GoesOnToWake(vmState[domains[di]])
             THEN /\ state' = vmState[domains[di]]
                  /\ pc' = "create"
                  /\ UNCHANGED <<result, conn, domains, di, ii>>
             ELSE Return("AlreadyRunning")
          /\ last' = Called("getstate", domains[di], TRUE)
          /\ UNCHANGED faulted
       \/ /\ faulted' = TRUE
          /\ last' = Called("getstate", domains[di], FALSE)
          /\ state' = "SHUTOFF"
          /\ pc' = "create"
          /\ UNCHANGED <<result, conn, domains, di, ii>>
    /\ UNCHANGED <<packet, grab, vmState, calls, stable, changes, matched, prev>>

\* domain.GetState() and the switch, lines 145-165
GetState ==
    /\ pc = "getstate"
    /\ \/ /\ IF GoesOnToWake(vmState[domains[di]])
             THEN /\ state' = vmState[domains[di]]
                  /\ pc' = "create"
                  /\ UNCHANGED <<result, conn, domains, di, ii>>
             ELSE Return("AlreadyRunning")
          /\ last' = Called("getstate", domains[di], TRUE)
          /\ UNCHANGED faulted
       \/ /\ faulted' = TRUE
          /\ last' = Called("getstate", domains[di], FALSE)
          /\ LET m == NextMatch(domains[di], ii + 1, grab.mac)
             IN IF m # 0
                THEN /\ ii' = m
                     /\ pc' = "getstate"
                     /\ UNCHANGED di
                ELSE /\ di' = di + 1
                     /\ ii' = 0
                     /\ pc' = "xml"
          /\ UNCHANGED <<state, result, conn, domains>>
    /\ UNCHANGED <<packet, grab, vmState, calls, stable, changes, matched, prev>>

\* Create without the return of line 173: after a successful call the interface
\* loop goes on
Create_NoReturn ==
    /\ pc = "create"
    /\ calls' = Append(calls, [op |-> WakeCall(state), dom |-> domains[di], seen |-> state,
                               was |-> vmState[domains[di]]])
    /\ \/ /\ IsInactive(vmState[domains[di]])
          /\ vmState' = [vmState EXCEPT ![domains[di]] = "RUNNING"]
          /\ LET m == NextMatch(domains[di], ii + 1, grab.mac)
             IN IF m # 0
                THEN /\ ii' = m
                     /\ pc' = "getstate"
                     /\ UNCHANGED di
                ELSE /\ di' = di + 1
                     /\ ii' = 0
                     /\ pc' = "xml"
          /\ last' = Called("create", domains[di], TRUE)
          /\ UNCHANGED <<faulted, result, conn, domains, state>>
       \/ /\ Return("StartError")
          /\ last' = Called("create", domains[di], FALSE)
          /\ faulted' = (faulted \/ IsInactive(vmState[domains[di]]))
          /\ UNCHANGED vmState
    /\ UNCHANGED <<packet, grab, stable, changes, matched, prev>>

\* domain.Create(), lines 168-173.  libvirt starts a domain only when it is inactive
Create ==
    /\ pc = "create"
    /\ calls' = Append(calls, [op |-> WakeCall(state), dom |-> domains[di], seen |-> state,
                               was |-> vmState[domains[di]]])
    /\ \/ /\ IsInactive(vmState[domains[di]])
          /\ vmState' = [vmState EXCEPT ![domains[di]] = "RUNNING"]
          /\ last' = Called("create", domains[di], TRUE)
          /\ Return("Woken")
          /\ UNCHANGED faulted
       \/ /\ Return("StartError")
          /\ last' = Called("create", domains[di], FALSE)
          /\ faulted' = (faulted \/ IsInactive(vmState[domains[di]]))
          /\ UNCHANGED vmState
    /\ UNCHANGED <<packet, grab, stable, changes, matched, prev>>

\* another libvirt client, or the guest itself, changes the state of a domain
ExternalChange ==
    /\ pc \notin {"start", "exited"}
    /\ changes < MaxChanges
    /\ \E d \in Domains :
          \E s \in DomainStates \ {vmState[d]} :
             vmState' = [vmState EXCEPT ![d] = s]
    /\ changes' = changes + 1
    /\ stable' = FALSE
    /\ UNCHANGED <<pc, packet, grab, conn, domains, di, ii, state, calls, result, faulted, last, matched, prev>>

Next ==
    \/ Startup
    \/ ReceivePacket
    \/ Connect
    \/ List
    \/ GetXMLDesc
    \/ ReturnNoMatch
    \/ GetState
    \/ Create
    \/ ExternalChange

Spec == Init /\ [][Next]_vars

(***************************************************************************)
(* GrabMACAddr alone: the packet is drawn from GrabPackets and the         *)
(* function is applied to it.                                              *)
(***************************************************************************)
TrailingBytes == {0, 171}

Trailers == UNION {[1..n -> TrailingBytes] : n \in 0..MaxTrailing}

BytesF == <<1, 35, 69, 103, 137, 171>>
BytesZ == <<0, 0, 0, 0, 0, 0>>

GrabMACs == {BytesA, BytesB, BytesF, BytesZ}

\* the positions (1-based) at which a payload is altered: the header, the first
\* repetition, the start of the second and the end of the last
AlteredAt == (1..(wolHeaderSize + wolMACSize + 1)) \cup {wolMinSize}

GrabPayloads ==
    LET whole == {WellFormed(m, t) : m \in GrabMACs, t \in Trailers}
        cut == {SubSeq(WellFormed(m, <<>>), 1, n) : m \in GrabMACs, n \in 0..(wolMinSize - 1)}
        plain == whole \cup cut
    IN plain \cup {Replace(q, i, b) : q \in plain, i \in AlteredAt, b \in {0, 254}}

GrabPackets ==
    {[app |-> TRUE, payload |-> q] : q \in GrabPayloads} \cup {NoPacket}

InitGrab ==
    /\ pc = "grab"
    /\ packet \in GrabPackets
    /\ grab = NoGrab
    /\ vmState = [d \in Domains |-> "SHUTOFF"]
    /\ conn = FALSE
    /\ domains = <<>>
    /\ di = 0
    /\ ii = 0
    /\ state = "none"
    /\ calls = <<>>
    /\ result = "none"
    /\ faulted = FALSE
    /\ stable = TRUE
    /\ changes = 0
    /\ last = NoCall
    /\ matched = {}
    /\ prev = NoPrev

ApplyGrabMACAddr ==
    /\ pc = "grab"
    /\ grab' = GrabMACAddr(packet)
    /\ pc' = "grabbed"
    /\ UNCHANGED <<packet, vmState, conn, domains, di, ii, state, calls, result,
                   faulted, stable, changes, last, matched, prev>>

NextGrab == ApplyGrabMACAddr

SpecGrab == InitGrab /\ [][NextGrab]_vars

(***************************************************************************)
(* Vocabulary of the properties.                                           *)
(***************************************************************************)
Lower(c) ==
    CASE c = "A" -> "a" [] c = "B" -> "b" [] c = "C" -> "c"
      [] c = "D" -> "d" [] c = "E" -> "e" [] c = "F" -> "f"
      [] OTHER -> c

\* equality of two strings when letter case is ignored
EqualFold(a, b) == Len(a) = Len(b) /\ \A i \in 1..Len(a) : Lower(a[i]) = Lower(b[i])

\* the value of a hexadecimal digit in lower case, -1 for any other character
HexValue(c) ==
    IF \E k \in 1..16 : HexLower[k] = c THEN (CHOOSE k \in 1..16 : HexLower[k] = c) - 1 ELSE -1

\* the target MAC handed to WakeVirtualMachine
Target == grab.mac

\* domain d has an interface whose configured MAC is the target, character by character
HasTarget(d) == \E i \in 1..Len(Interfaces[d]) : Interfaces[d][i] = Target

\* domain d has an interface whose configured MAC is the target when case is ignored
HasTargetFold(d) == \E i \in 1..Len(Interfaces[d]) : EqualFold(Interfaces[d][i], Target)

\* WakeVirtualMachine was invoked for the current packet and has returned
Returned == result # "none" /\ pc \in {"wait", "exited"}

\* the invocation ran against libvirt undisturbed: no call failed by itself and
\* nobody else changed a domain state since it began
Undisturbed == stable /\ ~faulted

\* the state of d when the invocation began (meaningful while stable holds): the
\* only change the invocation makes is that of its own wake call
Before(d) ==
    IF \E k \in 1..Len(calls) : calls[k].dom = d
    THEN calls[CHOOSE k \in 1..Len(calls) : calls[k].dom = d /\ \A j \in 1..(k - 1) : calls[j].dom # d].was
    ELSE vmState[d]

WakeOps == {"start", "resume", "pm-wakeup"}

\* the four states of C1 are all held, and d is the only domain matching the target
FourStates == {Before(d) : d \in Domains} = {"RUNNING", "SHUTOFF", "PAUSED", "PMSUSPENDED"}
OnlyMatch(d) == HasTarget(d) /\ \A e \in Domains \ {d} : ~HasTargetFold(e)

(***************************************************************************)
(* Properties of WakeVirtualMachine, under Spec.                           *)
(***************************************************************************)

\* C1: when the domains are in the states Running, ShutOff, Paused and
\* PM-Suspended and the target MAC is configured on the ShutOff domain only, an
\* undisturbed invocation issues exactly one call, a "start", to the ShutOff
\* domain, and no wake call to any other domain.
C1_OneStartForShutOff ==
    \A d \in Domains :
        (Returned /\ Undisturbed /\ FourStates /\ OnlyMatch(d) /\ Before(d) = "SHUTOFF")
            => /\ Len(calls) = 1
               /\ calls[1].op = "start"
               /\ calls[1].dom = d

C1_Witness ==
    /\ Returned /\ Undisturbed /\ FourStates
    /\ OnlyMatch("vm4") /\ Before("vm4") = "SHUTOFF"
    /\ result = "Woken"
    /\ vmState["vm4"] = "RUNNING"

\* what the wake action for a state is to be, by the dispatch table
ActionFor(s) ==
    CASE s \in {"SHUTOFF", "SHUTDOWN", "CRASHED"} -> "start"
      [] s = "PMSUSPENDED" -> "pm-wakeup"
      [] s = "PAUSED" -> "resume"
      [] OTHER -> "none"

\* C2: the wake call issued for a matched domain is the one the dispatch table
\* gives for the state read from it: "start" for ShutOff, Shutdown and Crashed,
\* "pm-wakeup" for PM-Suspended, "resume" for Paused.
C2_ActionByState ==
    \A k \in 1..Len(calls) : calls[k].op = ActionFor(calls[k].seen)

\* C3: when the target MAC is configured on a Running domain (and on no other),
\* an undisturbed invocation issues no wake call and returns AlreadyRunning.
C3_RunningIsAlreadyRunning ==
    \A d \in Domains :
        (Returned /\ Undisturbed /\ OnlyMatch(d) /\ Before(d) = "RUNNING")
            => calls = <<>> /\ result = "AlreadyRunning"

\* C4: a Paused or PM-Suspended domain whose configured MAC is the target (and
\* which is the only such domain) is found by an undisturbed invocation and
\* receives the wake call.
C4_SuspendedIsFound ==
    \A d \in Domains :
        (Returned /\ Undisturbed /\ OnlyMatch(d) /\ Before(d) \in {"PAUSED", "PMSUSPENDED"})
            => /\ result # "NoMatchingDomain"
               /\ Len(calls) = 1
               /\ calls[1].dom = d

\* C5: when no configured MAC of any domain is the target, even with case
\* ignored, the invocation issues no wake call and the process goes on to wait
\* for the next packet; it returns NoMatchingDomain, unless the connection or
\* the enumeration itself failed.
C5_NoMatchingDomain ==
    (Returned /\ \A d \in Domains : ~HasTargetFold(d))
        => /\ calls = <<>>
           /\ pc = "wait"
           /\ result \in {"NoMatchingDomain", "ConnectError", "ListError"}
           /\ (~faulted => result = "NoMatchingDomain")

C5_Witness ==
    /\ Returned
    /\ \A d \in Domains : ~HasTargetFold(d)
    /\ result = "NoMatchingDomain"
    /\ \E d \in Domains : vmState[d] = "SHUTOFF"
    /\ pc = "wait"

\* C6: an invocation issues at most one wake call, and only to a domain that has
\* the target MAC and was read in one of the states the switch lets through.
C6_AtMostOneWakeCall ==
    /\ Len(calls) <= 1
    /\ \A k \in 1..Len(calls) :
          /\ calls[k].op \in WakeOps
          /\ HasTarget(calls[k].dom)
          /\ calls[k].seen \in {"SHUTDOWN", "SHUTOFF", "CRASHED", "PMSUSPENDED", "PAUSED"}

\* the target is on two interfaces of vm3 and on vm1; vm3 was woken, vm1 is
\* still shut off
C6_Witness ==
    /\ Returned
    /\ stable
    /\ result = "Woken"
    /\ Target = MacB
    /\ Len(calls) = 1
    /\ calls[1].dom = "vm3"
    /\ vmState["vm1"] = "SHUTOFF"

\* C7: a domain whose configured MAC equals the target when case is ignored is
\* treated as matching: when it is shut off and the only such domain, an
\* undisturbed invocation does not return NoMatchingDomain.
C7_CaseInsensitiveMatch ==
    \A d \in Domains :
        (/\ Returned /\ Undisturbed
         /\ HasTargetFold(d) /\ \A e \in Domains \ {d} : ~HasTargetFold(e)
         /\ Before(d) = "SHUTOFF")
            => result # "NoMatchingDomain"

(***************************************************************************)
(* Properties of GrabMACAddr, under SpecGrab.                              *)
(***************************************************************************)
Grabbed == pc = "grabbed" /\ packet.app

\* C8: a payload of fewer than 102 bytes fails with TooShort, yields no MAC, and
\* no byte at or beyond its length is read.
C8_TooShort ==
    (Grabbed /\ Len(packet.payload) < 102)
        => /\ grab.err = "TooShort"
           /\ grab.mac = NoMAC
           /\ \A i \in grab.reads : i < Len(packet.payload)

C8_Witness ==
    /\ Grabbed
    /\ Len(packet.payload) = 101
    /\ \A i \in 1..wolHeaderSize : packet.payload[i] = 255
    /\ grab.err = "TooShort"

\* the first six bytes exist and are not all 0xFF
BadHeader(payload) == Len(payload) >= 6 /\ \E i \in 1..6 : payload[i] # 255

\* C9, as claimed: any payload whose first six bytes are not all 0xFF fails with
\* InvalidHeader and yields no MAC.
C9_AnyLength ==
    (Grabbed /\ BadHeader(packet.payload))
        => grab.err = "InvalidHeader" /\ grab.mac = NoMAC

\* C9, amended: a payload of at least 102 bytes whose first six bytes are not
\* all 0xFF fails with InvalidHeader and yields no MAC.
C9_InvalidHeader ==
    (Grabbed /\ Len(packet.payload) >= 102 /\ BadHeader(packet.payload))
        => grab.err = "InvalidHeader" /\ grab.mac = NoMAC

\* only the last byte of the header is wrong
C9_Witness ==
    /\ Grabbed
    /\ Len(packet.payload) >= 102
    /\ \A i \in 1..5 : packet.payload[i] = 255
    /\ packet.payload[6] # 255
    /\ grab.err = "InvalidHeader"

\* six bytes 0xFF, then sixteen equal groups of six bytes, then anything
IsWellFormed(payload) ==
    /\ Len(payload) >= 102
    /\ \A i \in 1..6 : payload[i] = 255
    /\ \A g \in 1..15 : \A k \in 1..6 : payload[6 + 6 * g + k] = payload[6 + k]

\* the string is six groups of two lowercase hexadecimal digits joined by colons
\* and the groups spell the six bytes
SpellsBytes(str, bytes) ==
    /\ Len(str) = 17
    /\ \A g \in 1..5 : str[3 * g] = ":"
    /\ \A g \in 0..5 :
          /\ HexValue(str[3 * g + 1]) >= 0
          /\ HexValue(str[3 * g + 2]) >= 0
          /\ 16 * HexValue(str[3 * g + 1]) + HexValue(str[3 * g + 2]) = bytes[g + 1]

\* C10: a well-formed payload, whatever follows the repetitions, yields without
\* error the MAC of payload bytes 6 to 11 as lowercase colon-separated hex.
C10_FirstRepetition ==
    (Grabbed /\ IsWellFormed(packet.payload))
        => /\ grab.err = "nil"
           /\ SpellsBytes(grab.mac, SubSeq(packet.payload, 7, 12))
           /\ (SubSeq(packet.payload, 7, 12) = <<170, 187, 204, 221, 238, 255>>
                  => grab.mac = <<"a", "a", ":", "b", "b", ":", "c", "c", ":",
                                  "d", "d", ":", "e", "e", ":", "f", "f">>)

C10_Witness ==
    /\ Grabbed
    /\ IsWellFormed(packet.payload)
    /\ Len(packet.payload) > 102
    /\ SubSeq(packet.payload, 7, 12) = <<170, 187, 204, 221, 238, 255>>
    /\ grab.mac = <<"a", "a", ":", "b", "b", ":", "c", "c", ":",
                    "d", "d", ":", "e", "e", ":", "f", "f">>

\* C11, as claimed: a payload of 102 bytes or more with a valid header in which
\* one of the 16 groups after the header differs from the first is rejected,
\* yields no MAC, and no wake attempt follows from it.
C11_RepetitionsChecked ==
    (/\ packet.app
     /\ Len(packet.payload) >= 102
     /\ \A i \in 1..6 : packet.payload[i] = 255
     /\ ~IsWellFormed(packet.payload)
     /\ grab # NoGrab)
        => /\ grab.err \notin {"nil"}
           /\ grab.mac = NoMAC
           /\ pc \in {"wait", "exited"}
           /\ calls = <<>>

\* C12, as claimed: a missing application layer fails with NoPayload, a payload
\* of fewer than 102 bytes with TooShort, and a payload whose first six bytes
\* are not all 0xFF with InvalidHeader.
C12_ByCause ==
    /\ (pc = "grabbed" /\ (~packet.app \/ packet.payload = <<>>)) => grab.err = "NoPayload"
    /\ (Grabbed /\ packet.payload # <<>> /\ Len(packet.payload) < 102) => grab.err = "TooShort"
    /\ (Grabbed /\ BadHeader(packet.payload)) => grab.err = "InvalidHeader"

\* C12, amended: a missing application layer fails with NoPayload, a payload of
\* fewer than 102 bytes with TooShort whatever its first bytes are, and a
\* payload of 102 bytes or more whose first six bytes are not all 0xFF with
\* InvalidHeader; each failure yields no MAC.
C12_ByCauseInOrder ==
    /\ (pc = "grabbed" /\ ~packet.app) => grab.err = "NoPayload"
    /\ (Grabbed /\ Len(packet.payload) < 102) => grab.err = "TooShort"
    /\ (Grabbed /\ Len(packet.payload) >= 102 /\ BadHeader(packet.payload))
          => grab.err = "InvalidHeader"
    /\ (pc = "grabbed" /\ grab.err # "nil") => grab.mac = NoMAC

\* a short payload whose header is wrong as well
C12_Witness ==
    /\ Grabbed
    /\ Len(packet.payload) < 102
    /\ BadHeader(packet.payload)
    /\ grab.err = "TooShort"
    /\ grab.mac = NoMAC

(***************************************************************************)
(* Properties of the loop of main and of WakeVirtualMachine, under Spec.   *)
(***************************************************************************)
\* the frame was dropped: GrabMACAddr or WakeVirtualMachine returned an error
Dropped == grab.err \notin {"none", "nil"} \/ (result # "none" /\ IsError(result))

\* C13: once startup has succeeded no step ends the process, and a frame that
\* fails extraction, an attempt that finds no matching domain and an attempt
\* whose libvirt call fails each leave the loop waiting for the next frame.
C13_ErrorsAreNotFatal ==
    [][/\ pc # "start" => pc' # "exited"
       /\ Dropped' => pc' = "wait"]_vars

\* the wake call itself failed and the loop is waiting again
C13_Witness ==
    /\ pc = "wait"
    /\ result = "StartError"
    /\ last = Called("create", calls[1].dom, FALSE)
    /\ ~stable

\* C14, as claimed: whenever a libvirt call of the invocation has failed by
\* itself (connect, enumerate, retrieve or parse a descriptor, read the state,
\* wake), the invocation returns an error.
C14_EveryFailureIsReturned ==
    (Returned /\ faulted) => IsError(result)

\* C14, amended: a failed connect, a failed enumeration and a failed wake call
\* are each the last libvirt call of the invocation, which returns that error;
\* after a failed descriptor retrieval or parse or a failed state read the loop
\* goes on, and the invocation returns what the rest of the loop decides.
C14_FatalFailures ==
    /\ (~last.ok /\ last.call \in {"connect", "list", "create"})
          => /\ Returned
             /\ ~conn
             /\ result = (CASE last.call = "connect" -> "ConnectError"
                            [] last.call = "list" -> "ListError"
                            [] last.call = "create" -> "StartError")
    /\ (~last.ok /\ last.call \in {"describe", "getstate"})
          => \/ pc \in {"xml", "getstate"} /\ result = "none"
             \/ Returned /\ result = "NoMatchingDomain"

\* a descriptor or a state read failed and the invocation still woke a domain
C14_Witness ==
    /\ Returned
    /\ faulted
    /\ result = "Woken"
    /\ last = Called("create", calls[1].dom, TRUE)

\* the wake call reached a domain that had become Running after its state was read
Raced(k) == calls[k].seen # calls[k].was /\ calls[k].was = "RUNNING"

\* C15: whatever others do to the domain between the state read and the wake
\* call, the call goes to a domain whose state was read as wakeable; when the
\* call fails because the domain has meanwhile become Running, the invocation
\* returns the start error, the loop waits for the next frame, and the call is
\* not made again.
C15_RaceTolerated ==
    \A k \in 1..Len(calls) :
       /\ GoesOnToWake(calls[k].seen)
       /\ calls[k].seen \notin {"RUNNING", "BLOCKED"}
       /\ Raced(k) => /\ k = Len(calls)
                      /\ result = "StartError"
                      /\ pc = "wait"
                      /\ last = Called("create", calls[k].dom, FALSE)

\* the domain was read as shut off, was started by someone else, and the start
\* call failed
C15_Witness ==
    /\ Len(calls) = 1
    /\ calls[1].seen = "SHUTOFF"
    /\ Raced(1)
    /\ result = "StartError"
    /\ pc = "wait"
    /\ ~faulted

\* WakeVirtualMachine is running: between the call of line 71 and its return
InWake == pc \in {"connect", "list", "xml", "getstate", "create"}

\* C16: a frame is taken and its MAC extracted only while the loop is waiting,
\* with the previous invocation returned and its connection closed; every
\* libvirt call is made for the frame taken last, before its invocation has
\* returned; and an invocation returns once, with one of success (woken or
\* already running), no match, or an error.
C16_OneFrameAtATime ==
    [][/\ (packet' # packet \/ grab' # grab)
             => pc = "wait" /\ ~conn /\ ~InWake
       /\ last' # last
             => \/ pc = "wait" /\ last' = NoCall
                \/ InWake /\ result = "none" /\ packet' = packet /\ grab' = grab
       /\ (InWake /\ ~InWake')
             => /\ pc' = "wait"
                /\ ~conn'
                /\ result' \in {"Woken", "AlreadyRunning", "NoMatchingDomain",
                                "ConnectError", "ListError", "StartError"}
       /\ (result # "none" /\ result' # result)
             => pc = "wait" /\ result' = "none"]_vars

\* in the middle of an invocation, the connection open: no frame can be taken
C16_Witness ==
    /\ pc = "create"
    /\ conn
    /\ result = "none"
    /\ last = Called("getstate", domains[di], TRUE)
    /\ ~ENABLED ReceivePacket

\* C17: an invocation starts without a connection and opens its own; on every
\* return the connection is closed, so while the loop waits for a frame no
\* connection is open and nothing of the invocation (connection, domain list,
\* position in it, state read) is left for the next one.
C17_ConnectionPerInvocation ==
    /\ pc = "connect" => ~conn
    /\ conn => pc \in {"list", "xml", "getstate", "create"}
    /\ pc \in {"start", "wait", "exited", "connect"}
          => /\ ~conn
             /\ domains = <<>>
             /\ di = 0
             /\ ii = 0
             /\ state = "none"

\* the enumeration failed on an open connection, and the connection is closed
C17_Witness ==
    /\ Returned
    /\ pc = "wait"
    /\ result = "ListError"
    /\ last = Called("list", "-", FALSE)
    /\ ~conn

\* the wake commands of the latest invocation, without the domains they went to
Commands == [k \in 1..Len(calls) |-> calls[k].op]

\* the domains the invocation can wake: defined with the wanted MAC, and shut
\* off when the invocation began
Wakeable == {d \in Domains : HasTarget(d) /\ Before(d) = "SHUTOFF"}

\* C18: with every libvirt call answered and nobody else changing a state, the
\* wake commands of an invocation are decided by the MAC and the domain states
\* it finds: none when no domain with that MAC is shut off, otherwise one start
\* call to such a domain.  So an invocation that repeats the previous one, same
\* MAC and same states, issues the same commands, whatever came before.
C18_SameCommandAgain ==
    (Returned /\ Undisturbed)
        => /\ Wakeable = {} => Commands = <<>>
           /\ Wakeable # {} => /\ Commands = <<"start">>
                               /\ calls[1].dom \in Wakeable
           /\ prev.valid => Commands = prev.ops

\* the second of two invocations for the MAC of vm1 and vm3, both running
\* while vm4 is shut off: no command, as before
C18_Witness ==
    /\ Returned /\ Undisturbed
    /\ prev.valid
    /\ Target = MacB
    /\ vmState["vm4"] = "SHUTOFF"
    /\ Commands = <<>>
    /\ result = "NoMatchingDomain"

\* C19, as claimed: once a descriptor with the wanted MAC has been found, every
\* later libvirt call of the invocation is on that domain: no other descriptor
\* is retrieved, no other state is read, no other domain is woken.
C19_FirstMatchWins ==
    \A d \in matched :
       last.call \in {"describe", "getstate", "create"} => last.arg = d

\* C19, amended: the search stops at the first matching domain whose state is
\* read successfully: the only call after that read is the wake call on that
\* domain, and the wake call is the last call of the invocation.  A second
\* matching descriptor is found only after the state read of the first failed.
C19_FirstReadableMatchWins ==
    /\ (last.call = "getstate" /\ last.ok)
          => \/ pc = "create" /\ domains[di] = last.arg /\ last.arg \in matched
             \/ Returned /\ result = "AlreadyRunning"
    /\ last.call = "create"
          => /\ Returned
             /\ Len(calls) = 1
             /\ calls[1].dom = last.arg
             /\ last.arg \in matched
    /\ Cardinality(matched) > 1 => faulted
    /\ \A d \in matched : HasTarget(d)

\* vm1 matched first, its state could not be read, and vm3 was woken
C19_Witness ==
    /\ Returned
    /\ matched = {"vm1", "vm3"}
    /\ result = "Woken"
    /\ calls[1].dom = "vm3"
    /\ vmState["vm1"] = "SHUTOFF"

\* C20: a wake call on a domain is the next libvirt call after a successful read
\* of that domain's state, with Shutdown, ShutOff, Crashed, PM-Suspended or
\* Paused as the state read, and the domain is one whose descriptor was
\* retrieved, parsed and found to match; the call that follows a failed state
\* read, or a failed descriptor retrieval or parse, is never a wake call.
C20_WakeOnlyAfterStateRead ==
    [][/\ Len(calls') > Len(calls)
             => /\ last = Called("getstate", calls'[Len(calls')].dom, TRUE)
                /\ state = calls'[Len(calls')].seen
                /\ state \in {"SHUTDOWN", "SHUTOFF", "CRASHED", "PMSUSPENDED", "PAUSED"}
                /\ calls'[Len(calls')].dom \in matched
                /\ last'.call = "create"
       /\ (~last.ok /\ last' # last)
             => last'.call \in {"none", "describe", "getstate"}]_vars

\* after a failed call earlier in the invocation, a domain read as paused
\* received the wake call
C20_Witness ==
    /\ Returned
    /\ faulted
    /\ Len(calls) = 1
    /\ calls[1].seen = "PAUSED"
    /\ calls[1].dom \in matched
    /\ last = Called("create", calls[1].dom, FALSE)

====
